---- MODULE Spec2Model ----
(***************************************************************************)
(* Model of the Synapse-to-MAS migration (crates/syn2mas/src/migration.rs).*)
(*                                                                         *)
(* `migrate` runs six stages one after the other.  Each stage reads one    *)
(* source stream row by row, transforms the row and appends destination    *)
(* rows to the write buffers the stage owns; a buffer flushes to the       *)
(* destination writer when it reaches the batch size and when the stage    *)
(* finishes it.  Three in-memory indices thread between the stages.        *)
(*                                                                         *)
(* Time is counted in ticks, TicksPerMs ticks to the millisecond, so that  *)
(* the millisecond truncation done by a ULID is visible.  A 128-bit ID is  *)
(* the pair of its 48-bit millisecond timestamp and its random part; the   *)
(* random generator is modelled as yielding a fresh value at every draw.   *)
(***************************************************************************)
EXTENDS Integers, Sequences, FiniteSets, TLC

\* ------------------------------------------------------------------ bounds
MaxSessionRows == 3
MaxIdentityRows == 2
MaxUserRows == 2
MaxDeviceRows == 2
MaxRequests == 2
TicksPerMs == 2

\* ------------------------------------------------------------- option type
None == << >>
Some(x) == << x >>
IsSome(o) == o # << >>
Unwrap(o) == o[1]

\* ------------------------------------------------------------------ inputs
server_name == "example.org"

\* MasWriteBuffer flushes when it holds this many rows.
WRITE_BUFFER_BATCH_SIZE == 2

\* DateTime::from(MillisecondsTimestamp): milliseconds to ticks.
DateTimeFromMs(ms) == ms * TicksPerMs

\* Readings the injected Clock can give (3 ms and 3 ms plus a fraction).
ClockReadings == { 3 * TicksPerMs, 3 * TicksPerMs + 1 }

\* Readings of the operating system's clock, read by Ulid::with_source.
\* A system clock may agree with the injected clock or not (a mock clock).
SystemTimeReadings == { 3 * TicksPerMs + 1, 4 * TicksPerMs + 1 }

\* ---------------------------------------------------------------- ULID/UUID
\* A ULID whose timestamp rounds the datetime up to the next millisecond.
UlidFromDatetimeWithSource_RoundsUp(datetime, r) ==
    [ ts |-> (datetime + TicksPerMs - 1) \div TicksPerMs, rand |-> r ]

\* Ulid::from_datetime_with_source(datetime, rng): the timestamp is the
\* datetime in whole milliseconds, the random part is drawn from rng.
UlidFromDatetimeWithSource(datetime, r) == [ ts |-> datetime \div TicksPerMs, rand |-> r ]

\* Ulid::datetime(): the timestamp of the ID as a datetime.
UlidDatetime(id) == id.ts * TicksPerMs

ProviderUuid == [ ts |-> 0, rand |-> 0 ]

\* provider_id_mapping: Synapse auth_provider -> MAS upstream provider.
provider_id_mapping == [ p \in { "oidc" } |-> ProviderUuid ]

\* FullUserId::extract_localpart(server_name)
ExtractLocalpart(uid, expected) ==
    IF uid.server = expected THEN Some(uid.localpart) ELSE None

\* --------------------------------------------------------------- the source
Mxid(l) == [ localpart |-> l, server |-> server_name ]

BoundedSeq(S, n) == UNION { [ 1..k -> S ] : k \in 0..n }

\* Users of the session scenarios: alice is a Synapse admin, bob is not
\* and is deactivated.
Alice ==
    [ name |-> Mxid("alice"), password_hash |-> None, admin |-> TRUE,
      deactivated |-> FALSE, creation_ts |-> 1 ]

Bob ==
    [ name |-> Mxid("bob"), password_hash |-> None, admin |-> FALSE,
      deactivated |-> TRUE, creation_ts |-> 1 ]

SessionUsers == { << Alice >>, << Bob >>, << Alice, Bob >> }

\* Access tokens of alice, with or without a device, validated at 1 ms, at
\* 2 ms or never, and of bob, validated at 1 ms.
AccessTokenRows ==
    [ user_id : { Mxid("alice") }, device_id : { None, Some("D1") },
      token : { "syt" }, valid_until_ms : { None },
      last_validated : { None, Some(1), Some(2) } ]
    \cup
    [ user_id : { Mxid("bob") }, device_id : { None, Some("D1") },
      token : { "syt" }, valid_until_ms : { None }, last_validated : { Some(1) } ]

RefreshablePairRows ==
    [ user_id : { Mxid("alice") }, device_id : { "D1" },
      access_token : { "syt" }, refresh_token : { "syr" },
      valid_until_ms : { None }, last_validated : { None, Some(1), Some(2) } ]

SessionDeviceRows ==
    [ user_id : { Mxid("alice"), Mxid("bob") }, device_id : { "D1" },
      display_name : { None }, last_seen : { None }, ip : { None },
      user_agent : { None } ]

\* The ways to split at most n rows over the tables of a scenario.
Split2(n) == { k \in (0..n) \X (0..n) : k[1] + k[2] <= n }

Split3(n) == { k \in (0..n) \X (0..n) \X (0..n) : k[1] + k[2] + k[3] <= n }

\* src is a session scenario: one or two users and at most MaxSessionRows
\* access tokens, refreshable pairs and devices.
SessionSource(src) ==
    \E k \in Split3(MaxSessionRows) :
        \E u \in SessionUsers, t \in [ 1..k[1] -> AccessTokenRows ],
           p \in [ 1..k[2] -> RefreshablePairRows ], d \in [ 1..k[3] -> SessionDeviceRows ] :
            src = [ users |-> u, threepids |-> << >>, external_ids |-> << >>,
                    access_tokens |-> t, refreshable_pairs |-> p, devices |-> d ]

\* Users, threepids and external IDs of the identity scenarios.
IdentityUserRows ==
    [ name : { Mxid("alice"), [ localpart |-> "carol", server |-> "other.org" ] },
      password_hash : { None, Some("$hash") }, admin : BOOLEAN,
      deactivated : BOOLEAN, creation_ts : { 1 } ]

ThreepidRows ==
    [ user_id : { Mxid("alice"), Mxid("bob") }, medium : { "email", "Email", "msisdn" },
      address : { "addr" }, added_at : { 2 } ]

ExternalIdRows ==
    [ user_id : { Mxid("alice"), Mxid("bob") }, auth_provider : { "oidc", "saml" },
      external_id : { "subject" } ]

\* src is an identity scenario: at most one user and at most
\* MaxIdentityRows threepids and external IDs.
IdentitySource(src) ==
    \E k \in Split2(MaxIdentityRows) :
        \E u \in BoundedSeq(IdentityUserRows, 1), t \in [ 1..k[1] -> ThreepidRows ],
           e \in [ 1..k[2] -> ExternalIdRows ] :
            src = [ users |-> u, threepids |-> t, external_ids |-> e,
                    access_tokens |-> << >>, refreshable_pairs |-> << >>, devices |-> << >> ]

\* Users of the user scenarios: alice created at 1 ms, bob at 2 ms, and
\* carol of another server, each with or without a password hash, admin
\* or not, deactivated or not.
UserRows ==
    { [ name |-> n[1], password_hash |-> h, admin |-> a, deactivated |-> d,
        creation_ts |-> n[2] ] :
      n \in { << Mxid("alice"), 1 >>, << Mxid("bob"), 2 >>,
              << [ localpart |-> "carol", server |-> "other.org" ], 1 >> },
      h \in { None, Some("$hash") }, a \in BOOLEAN, d \in BOOLEAN }

\* src is a user scenario: at most MaxUserRows users and nothing else.
UserSource(src) ==
    \E u \in BoundedSeq(UserRows, MaxUserRows) :
        src = [ users |-> u, threepids |-> << >>, external_ids |-> << >>,
                access_tokens |-> << >>, refreshable_pairs |-> << >>, devices |-> << >> ]

\* Devices of the device scenarios: seen or never seen, with no IP, an IP
\* that parses or one that does not.
DeviceRows ==
    [ user_id : { Mxid("alice") }, device_id : { "D1", "D2" },
      display_name : { None }, last_seen : { None, Some(2) },
      ip : { None, Some("1.2.3.4"), Some("not-an-ip") },
      user_agent : { Some("ua") } ]

\* src is a device scenario: alice and at most MaxDeviceRows devices.
DeviceSource(src) ==
    \E d \in BoundedSeq(DeviceRows, MaxDeviceRows) :
        src = [ users |-> << Alice >>, threepids |-> << >>, external_ids |-> << >>,
                access_tokens |-> << >>, refreshable_pairs |-> << >>, devices |-> d ]

\* ------------------------------------------------------------------- state
VARIABLES
    synapse,                    \* the source database the reader streams
    pc,                         \* where migrate is: a stage, "done" or "failed"
    pos,                        \* rows of the current stage's stream consumed
    rng,                        \* draws made from the random generator
    user_localparts_to_uuid,    \* UsersMigrated.user_localparts_to_uuid
    synapse_admins,             \* UsersMigrated.synapse_admins
    devices_to_compat_sessions, \* (MAS user_id, device_id) -> session ID
    buf,                        \* rows held by the write buffer of each table
    mas,                        \* rows inserted by the destination writer, in order
    emitted,                    \* history: every row handed to a write buffer
    started,                    \* history: the stages started, in order
    result                      \* None while running, Ok or the error after

vars == << synapse, pc, pos, rng, user_localparts_to_uuid, synapse_admins,
           devices_to_compat_sessions, buf, mas, emitted, started, result >>

\* The admin API's policy-data set handler and its repository.
VARIABLES
    request,        \* the data of the request being handled, None when idle
    hpc,            \* where the handler is: "idle", "set", "save" or "respond"
    policy_data,    \* the row made by set, held by the open transaction
    policy_table,   \* the policy-data rows the repository has committed
    calls,          \* history: the repository calls of the request and their outcome
    responses       \* history: the responses given, with request and calls

hvars == << request, hpc, policy_data, policy_table, calls, responses >>

\* No request has been received.
HandlerIdle ==
    /\ request = None
    /\ hpc = "idle"
    /\ policy_data = None
    /\ policy_table = << >>
    /\ calls = << >>
    /\ responses = << >>

StageOrder == << "users", "threepids", "external_ids", "unrefreshable_access_tokens",
                 "refreshable_token_pairs", "devices" >>

Stages == { StageOrder[i] : i \in 1..Len(StageOrder) }

Tables == { "users", "passwords", "email_threepids", "unsupported_threepids",
            "upstream_oauth_links", "compat_sessions", "compat_access_tokens",
            "compat_refresh_tokens" }

\* migrate with the two token stages called in the other order.
AfterStage_TokenStagesSwapped(s) ==
    CASE s = "count_rows" -> "users"
      [] s = "users" -> "threepids"
      [] s = "threepids" -> "external_ids"
      [] s = "external_ids" -> "refreshable_token_pairs"
      [] s = "refreshable_token_pairs" -> "unrefreshable_access_tokens"
      [] s = "unrefreshable_access_tokens" -> "devices"
      [] s = "devices" -> "done"

\* migrate with the device stage called before the token stages.
AfterStage_DevicesFirst(s) ==
    CASE s = "count_rows" -> "users"
      [] s = "users" -> "threepids"
      [] s = "threepids" -> "external_ids"
      [] s = "external_ids" -> "devices"
      [] s = "devices" -> "unrefreshable_access_tokens"
      [] s = "unrefreshable_access_tokens" -> "refreshable_token_pairs"
      [] s = "refreshable_token_pairs" -> "done"

\* The stage migrate calls after stage s has returned Ok.
AfterStage(s) ==
    CASE s = "count_rows" -> "users"
      [] s = "users" -> "threepids"
      [] s = "threepids" -> "external_ids"
      [] s = "external_ids" -> "unrefreshable_access_tokens"
      [] s = "unrefreshable_access_tokens" -> "refreshable_token_pairs"
      [] s = "refreshable_token_pairs" -> "devices"
      [] s = "devices" -> "done"

\* The source stream a stage reads.
StreamOf(s) ==
    CASE s = "users" -> synapse.users
      [] s = "threepids" -> synapse.threepids
      [] s = "external_ids" -> synapse.external_ids
      [] s = "unrefreshable_access_tokens" -> synapse.access_tokens
      [] s = "refreshable_token_pairs" -> synapse.refreshable_pairs
      [] s = "devices" -> synapse.devices

Err(kind, detail, user) == [ kind |-> kind, detail |-> detail, user |-> user ]

NoUser == [ localpart |-> "", server |-> "" ]

Ok == [ kind |-> "Ok", detail |-> "", user |-> NoUser ]

Init ==
    /\ \/ SessionSource(synapse)
       \/ IdentitySource(synapse)
       \/ UserSource(synapse)
       \/ DeviceSource(synapse)
    /\ pc = "count_rows"
    /\ pos = 0
    /\ rng = 0
    /\ user_localparts_to_uuid = << >>
    /\ synapse_admins = { }
    /\ devices_to_compat_sessions = << >>
    /\ buf = [ t \in Tables |-> << >> ]
    /\ mas = << >>
    /\ emitted = << >>
    /\ started = << >>
    /\ result = None
    /\ HandlerIdle

\* ------------------------------------------------------------ write buffer
\* The destination writer and the buffers of the running stage, threaded
\* through the writes of one step.  flushes counts the batch inserts the
\* step has issued; err is set by the insert that failed.
Writer == [ buf |-> buf, mas |-> mas, emitted |-> emitted, flushes |-> 0, err |-> None ]

\* Which batch insert of a step fails: none (0), the first or the second.
FlushFaults == 0..2

\* MasWriter::write_<table>(rows): one multi-row insert, in order.
Inserted(table, rows) == [ i \in 1..Len(rows) |-> [ table |-> table, row |-> rows[i] ] ]

\* MasWriteBuffer::flush: nothing to do on an empty buffer; otherwise take
\* the rows out of the buffer and insert them in one batch.
BufFlush(w, failAt, table, context) ==
    IF w.buf[table] = << >> THEN w
    ELSE IF w.flushes + 1 = failAt
         THEN [ w EXCEPT !.buf[table] = << >>, !.flushes = @ + 1,
                         !.err = Some(Err("Mas", context, NoUser)) ]
         ELSE [ w EXCEPT !.buf[table] = << >>, !.flushes = @ + 1,
                         !.mas = @ \o Inserted(table, w.buf[table]) ]

\* MasWriteBuffer::write: append, and flush when the batch size is reached.
\* A write after a failed one does not happen (`?` has returned).
BufWrite(w, failAt, table, row, context) ==
    IF w.err # None THEN w
    ELSE LET pushed == [ w EXCEPT !.buf[table] = Append(@, row),
                                  !.emitted = Append(@, [ table |-> table, row |-> row,
                                                          stage |-> pc, src |-> pos + 1 ]) ]
         IN  IF Len(pushed.buf[table]) >= WRITE_BUFFER_BATCH_SIZE
             THEN BufFlush(pushed, failAt, table, context)
             ELSE pushed

\* MasWriteBuffer::finish
BufFinish(w, failAt, table, context) ==
    IF w.err # None THEN w ELSE BufFlush(w, failAt, table, context)

\* ---------------------------------------------------------------- outcomes
\* `return Err(e)` / `?` out of a stage and out of migrate.
Fail(e) ==
    /\ pc' = "failed"
    /\ result' = Some(e)

\* The writes of a loop iteration are done: the loop goes on, or the
\* failed insert's error is returned.
RowWritten(w) ==
    /\ buf' = w.buf
    /\ mas' = w.mas
    /\ emitted' = w.emitted
    /\ pos' = pos + 1
    /\ started' = started
    /\ IF w.err # None THEN Fail(Unwrap(w.err)) ELSE pc' = pc /\ result' = result
    /\ UNCHANGED hvars

\* The buffers of the stage are finished: the stage returns Ok and migrate
\* calls the next stage, or the failed insert's error is returned.
StageFinished(w) ==
    /\ UNCHANGED hvars
    /\ buf' = w.buf
    /\ mas' = w.mas
    /\ emitted' = w.emitted
    /\ IF w.err # None
       THEN Fail(Unwrap(w.err)) /\ UNCHANGED << pos, started >>
       ELSE /\ pc' = AfterStage(pc)
            /\ pos' = 0
            /\ started' = IF AfterStage(pc) \in Stages THEN Append(started, AfterStage(pc))
                                                       ELSE started
            /\ result' = IF AfterStage(pc) = "done" THEN Some(Ok) ELSE result

\* A rejected row that is skipped: the loop goes on with the next row.
RowRejected_SkipsRow(e) ==
    /\ pc' = pc
    /\ result' = result
    /\ pos' = pos + 1
    /\ UNCHANGED << buf, mas, emitted, started >>
    /\ UNCHANGED hvars

\* A row that is rejected before anything is written.
RowRejected(e) ==
    /\ Fail(e)
    /\ pos' = pos + 1
    /\ UNCHANGED << buf, mas, emitted, started >>
    /\ UNCHANGED hvars

HasRow(stage) == pc = stage /\ pos < Len(StreamOf(stage))

AtEnd(stage) == pc = stage /\ pos = Len(StreamOf(stage))

\* ------------------------------------------------------------------ lookups
\* A lookup that answers the nil UUID for a localpart it does not hold.
LookupUser_DefaultsToNil(localpart) ==
    IF localpart \in DOMAIN user_localparts_to_uuid
    THEN Some(user_localparts_to_uuid[localpart]) ELSE Some([ ts |-> 0, rand |-> 0 ])

\* HashMap::get on the localpart index.
LookupUser(localpart) ==
    IF localpart \in DOMAIN user_localparts_to_uuid
    THEN Some(user_localparts_to_uuid[localpart]) ELSE None

\* HashMap::insert
MapInsert(m, k, v) == [ x \in DOMAIN m \cup { k } |-> IF x = k THEN v ELSE m[x] ]

\* An entry that replaces the value the key already has.
EntryOrInsert_Overwrites(m, k, v) == MapInsert(m, k, v)

\* HashMap::entry(k).or_insert_with(|| v): the map afterwards.
EntryOrInsert(m, k, v) == IF k \in DOMAIN m THEN m ELSE MapInsert(m, k, v)

\* str::parse::<IpAddr>()
ValidIps == { "1.2.3.4" }

\* An IP column copied without being parsed.
ParseIp_KeepsString(ip) == ip

ParseIp(ip) == IF IsSome(ip) /\ Unwrap(ip) \in ValidIps THEN ip ELSE None

\* The context a failed read of each stream is reported with.
ReadContext(s) ==
    CASE s = "count_rows" -> "counting users"
      [] s = "users" -> "reading user"
      [] s = "threepids" -> "reading threepid"
      [] s = "external_ids" -> "reading external ID"
      [] s = "unrefreshable_access_tokens" -> "reading Synapse access token"
      [] s = "refreshable_token_pairs" -> "reading Synapse refresh token"
      [] s = "devices" -> "reading Synapse device"

\* --------------------------------------------------------------- user stage
\* Every user locked at its creation.
LockedAt_Always(user) == Some(DateTimeFromMs(user.creation_ts))

\* bool::from(user.deactivated).then_some(user.creation_ts.into())
LockedAt(user) == IF user.deactivated THEN Some(DateTimeFromMs(user.creation_ts)) ELSE None

\* A password that carries its own ID as the user ID.
MasPassword_OwnUserId(user, new_user, r) ==
    IF IsSome(user.password_hash)
    THEN Some([ user_password_id |->
                    UlidFromDatetimeWithSource(DateTimeFromMs(user.creation_ts), r),
                user_id |-> UlidFromDatetimeWithSource(DateTimeFromMs(user.creation_ts), r),
                hashed_password |-> Unwrap(user.password_hash),
                created_at |-> new_user.created_at ])
    ELSE None

\* user.password_hash.clone().map(|password_hash| MasNewUserPassword { .. })
MasPassword(user, new_user, r) ==
    IF IsSome(user.password_hash)
    THEN Some([ user_password_id |->
                    UlidFromDatetimeWithSource(DateTimeFromMs(user.creation_ts), r),
                user_id |-> new_user.user_id,
                hashed_password |-> Unwrap(user.password_hash),
                created_at |-> new_user.created_at ])
    ELSE None

\* transform_user: the MAS user, the optional MAS password and the number
\* of draws made from the random generator.
TransformUser(user, r) ==
    LET username == ExtractLocalpart(user.name, server_name)
        created == DateTimeFromMs(user.creation_ts)
        new_user == [ user_id |-> UlidFromDatetimeWithSource(created, r),
                      username |-> Unwrap(username),
                      created_at |-> created,
                      locked_at |-> LockedAt(user),
                      can_request_admin |-> user.admin ]
    IN  IF username = None
        THEN [ err |-> Some(Err("ExtractLocalpart", "", user.name)) ]
        ELSE [ err |-> None, mas_user |-> new_user,
               mas_password |-> MasPassword(user, new_user, r + 1),
               draws |-> IF IsSome(user.password_hash) THEN 2 ELSE 1 ]

\* migrate: synapse.count_rows()
CountRows ==
    /\ pc = "count_rows"
    /\ pc' = AfterStage(pc)
    /\ started' = Append(started, AfterStage(pc))
    /\ UNCHANGED hvars
    /\ UNCHANGED << synapse, pos, rng, user_localparts_to_uuid, synapse_admins,
                    devices_to_compat_sessions, buf, mas, emitted, result >>

\* A read of the source fails: count_rows, or the next item of a stream.
SourceReadError ==
    /\ pc \in Stages \cup { "count_rows" }
    /\ Fail(Err("Synapse", ReadContext(pc), NoUser))
    /\ UNCHANGED hvars
    /\ UNCHANGED << synapse, pos, rng, user_localparts_to_uuid, synapse_admins,
                    devices_to_compat_sessions, buf, mas, emitted, started >>

\* migrate_users: one iteration of the loop.
MigrateUsersRow(failAt) ==
    /\ HasRow("users")
    /\ LET user == synapse.users[pos + 1]
           t == TransformUser(user, rng)
       IN  IF t.err # None
           THEN /\ RowRejected(Unwrap(t.err))
                /\ UNCHANGED << rng, user_localparts_to_uuid, synapse_admins >>
           ELSE LET w1 == BufWrite(Writer, failAt, "users", t.mas_user, "writing user")
                    w2 == IF IsSome(t.mas_password)
                          THEN BufWrite(w1, failAt, "passwords", Unwrap(t.mas_password),
                                        "writing password")
                          ELSE w1
                IN  /\ rng' = rng + t.draws
                    /\ synapse_admins' = IF user.admin
                                          THEN synapse_admins \cup { t.mas_user.user_id }
                                          ELSE synapse_admins
                    /\ user_localparts_to_uuid' =
                           MapInsert(user_localparts_to_uuid, t.mas_user.username,
                                     t.mas_user.user_id)
                    /\ RowWritten(w2)
    /\ UNCHANGED << synapse, devices_to_compat_sessions >>

\* The user stage returning with the user buffer never finished.
MigrateUsersFinish_SkipsUserBuffer(failAt) ==
    /\ AtEnd("users")
    /\ LET w2 == BufFinish(Writer, failAt, "passwords", "writing passwords")
       IN  StageFinished(w2)
    /\ UNCHANGED << synapse, rng, user_localparts_to_uuid, synapse_admins,
                    devices_to_compat_sessions >>

\* migrate_users: the stream has ended.
MigrateUsersFinish(failAt) ==
    /\ AtEnd("users")
    /\ LET w1 == BufFinish(Writer, failAt, "users", "writing users")
           w2 == BufFinish(w1, failAt, "passwords", "writing passwords")
       IN  StageFinished(w2)
    /\ UNCHANGED << synapse, rng, user_localparts_to_uuid, synapse_admins,
                    devices_to_compat_sessions >>

\* ----------------------------------------------------------- threepid stage
\* A medium compared without regard to case.
IsEmail_IgnoresCase(medium) == medium \in { "email", "Email" }

\* medium == "email"
IsEmail(medium) == medium = "email"

\* migrate_threepids: one iteration of the loop.
MigrateThreepidsRow(failAt) ==
    /\ HasRow("threepids")
    /\ LET threepid == synapse.threepids[pos + 1]
           created_at == DateTimeFromMs(threepid.added_at)
           username == ExtractLocalpart(threepid.user_id, server_name)
           user_id == LookupUser(Unwrap(username))
       IN  IF username = None
           THEN RowRejected(Err("ExtractLocalpart", "", threepid.user_id)) /\ rng' = rng
           ELSE IF user_id = None
           THEN RowRejected(Err("MissingUserFromDependentTable", "user_threepids",
                                threepid.user_id)) /\ rng' = rng
           ELSE IF IsEmail(threepid.medium)
           THEN /\ RowWritten(BufWrite(Writer, failAt, "email_threepids",
                        [ user_id |-> Unwrap(user_id),
                          user_email_id |-> UlidFromDatetimeWithSource(created_at, rng),
                          email |-> threepid.address,
                          created_at |-> created_at ], "writing email"))
                /\ rng' = rng + 1
           ELSE /\ RowWritten(BufWrite(Writer, failAt, "unsupported_threepids",
                        [ user_id |-> Unwrap(user_id),
                          medium |-> threepid.medium,
                          address |-> threepid.address,
                          created_at |-> created_at ], "writing unsupported threepid"))
                /\ rng' = rng
    /\ UNCHANGED << synapse, user_localparts_to_uuid, synapse_admins,
                    devices_to_compat_sessions >>

\* migrate_threepids: the stream has ended.
MigrateThreepidsFinish(failAt) ==
    /\ AtEnd("threepids")
    /\ LET w1 == BufFinish(Writer, failAt, "email_threepids", "writing email threepids")
           w2 == BufFinish(w1, failAt, "unsupported_threepids",
                           "writing unsupported threepids")
       IN  StageFinished(w2)
    /\ UNCHANGED << synapse, rng, user_localparts_to_uuid, synapse_admins,
                    devices_to_compat_sessions >>

\* -------------------------------------------------------- external-ID stage
\* A provider lookup that falls back to the first mapped provider.
LookupProvider_FallsBack(auth_provider) ==
    IF auth_provider \in DOMAIN provider_id_mapping
    THEN Some(provider_id_mapping[auth_provider])
    ELSE Some(provider_id_mapping[CHOOSE p \in DOMAIN provider_id_mapping : TRUE])

\* provider_id_mapping.get(&auth_provider)
LookupProvider(auth_provider) ==
    IF auth_provider \in DOMAIN provider_id_mapping
    THEN Some(provider_id_mapping[auth_provider]) ELSE None

\* The lookups of an external ID with the provider looked up before the
\* user.
ExternalIdError_ProviderFirst(extid) ==
    LET username == ExtractLocalpart(extid.user_id, server_name)
    IN  IF username = None
        THEN Some(Err("ExtractLocalpart", "", extid.user_id))
        ELSE IF LookupProvider(extid.auth_provider) = None
        THEN Some(Err("MissingAuthProviderMapping", extid.auth_provider, extid.user_id))
        ELSE IF LookupUser(Unwrap(username)) = None
        THEN Some(Err("MissingUserFromDependentTable", "user_external_ids", extid.user_id))
        ELSE None

\* The error an external ID is rejected with, if any: the localpart is
\* extracted, then the user is looked up, then the provider.
ExternalIdError(extid) ==
    LET username == ExtractLocalpart(extid.user_id, server_name)
    IN  IF username = None
        THEN Some(Err("ExtractLocalpart", "", extid.user_id))
        ELSE IF LookupUser(Unwrap(username)) = None
        THEN Some(Err("MissingUserFromDependentTable", "user_external_ids", extid.user_id))
        ELSE IF LookupProvider(extid.auth_provider) = None
        THEN Some(Err("MissingAuthProviderMapping", extid.auth_provider, extid.user_id))
        ELSE None

\* migrate_external_ids: one iteration of the loop.
MigrateExternalIdsRow(failAt) ==
    /\ HasRow("external_ids")
    /\ LET extid == synapse.external_ids[pos + 1]
           username == ExtractLocalpart(extid.user_id, server_name)
           user_id == LookupUser(Unwrap(username))
           user_created_ts == UlidDatetime(Unwrap(user_id))
       IN  IF ExternalIdError(extid) # None
           THEN RowRejected(Unwrap(ExternalIdError(extid))) /\ rng' = rng
           ELSE /\ RowWritten(BufWrite(Writer, failAt, "upstream_oauth_links",
                        [ link_id |-> UlidFromDatetimeWithSource(user_created_ts, rng),
                          user_id |-> Unwrap(user_id),
                          upstream_provider_id |-> Unwrap(LookupProvider(extid.auth_provider)),
                          subject |-> extid.external_id,
                          created_at |-> user_created_ts ],
                        "failed to write upstream link"))
                /\ rng' = rng + 1
    /\ UNCHANGED << synapse, user_localparts_to_uuid, synapse_admins,
                    devices_to_compat_sessions >>

\* migrate_external_ids: the stream has ended.
MigrateExternalIdsFinish(failAt) ==
    /\ AtEnd("external_ids")
    /\ StageFinished(BufFinish(Writer, failAt, "upstream_oauth_links", "writing threepids"))
    /\ UNCHANGED << synapse, rng, user_localparts_to_uuid, synapse_admins,
                    devices_to_compat_sessions >>

\* ------------------------------------------------------------- token stages
\* last_validated.map_or_else(|| clock.now(), DateTime::from)
CreatedAt(last_validated, now) ==
    IF IsSome(last_validated) THEN DateTimeFromMs(Unwrap(last_validated)) ELSE now

\* Ulid::with_source(rng): an ID dated by the system clock.
UlidWithSource(system_now, r) == UlidFromDatetimeWithSource(system_now, r)

\* MasNewCompatSession of a deviceless access token.
DevicelessSession(session_id, user_id, created_at) ==
    [ session_id |-> session_id,
      user_id |-> user_id,
      device_id |-> None,
      human_name |-> None,
      created_at |-> created_at,
      is_synapse_admin |-> FALSE,
      last_active_at |-> None,
      last_active_ip |-> None,
      user_agent |-> None ]

\* SessionForToken writing no session row for a deviceless token.
SessionForToken_SkipsDeviceless(tok, user_id, created_at) ==
    IF IsSome(tok.device_id)
    THEN LET key == << user_id, Unwrap(tok.device_id) >>
             index == EntryOrInsert(devices_to_compat_sessions, key,
                                    UlidFromDatetimeWithSource(created_at, rng))
         IN  [ index |-> index,
               session_id |-> index[key],
               draws |-> IF key \in DOMAIN devices_to_compat_sessions THEN 0 ELSE 1,
               session |-> None ]
    ELSE [ index |-> devices_to_compat_sessions,
           session_id |-> UlidFromDatetimeWithSource(created_at, rng),
           draws |-> 1,
           session |-> None ]

\* SessionForToken writing a session row for a token with a device as well.
SessionForToken_AlwaysEmits(tok, user_id, created_at) ==
    LET session_id ==
            IF IsSome(tok.device_id)
            THEN EntryOrInsert(devices_to_compat_sessions,
                               << user_id, Unwrap(tok.device_id) >>,
                               UlidFromDatetimeWithSource(created_at, rng))
                     [<< user_id, Unwrap(tok.device_id) >>]
            ELSE UlidFromDatetimeWithSource(created_at, rng)
    IN  [ index |-> IF IsSome(tok.device_id)
                    THEN EntryOrInsert(devices_to_compat_sessions,
                                       << user_id, Unwrap(tok.device_id) >>,
                                       UlidFromDatetimeWithSource(created_at, rng))
                    ELSE devices_to_compat_sessions,
          session_id |-> session_id,
          draws |-> IF IsSome(tok.device_id)
                       /\ << user_id, Unwrap(tok.device_id) >> \in DOMAIN devices_to_compat_sessions
                    THEN 0 ELSE 1,
          session |-> Some([ DevicelessSession(session_id, user_id, created_at)
                               EXCEPT !.device_id = tok.device_id ]) ]

\* The session of an unrefreshable access token: with a device, the session
\* ID the index holds for (user, device), minted and recorded if there is
\* none, and no session row; without a device, a fresh session ID and the
\* session row to write.  draws counts the draws from the generator.
SessionForToken(tok, user_id, created_at) ==
    IF IsSome(tok.device_id)
    THEN LET key == << user_id, Unwrap(tok.device_id) >>
             index == EntryOrInsert(devices_to_compat_sessions, key,
                                    UlidFromDatetimeWithSource(created_at, rng))
         IN  [ index |-> index,
               session_id |-> index[key],
               draws |-> IF key \in DOMAIN devices_to_compat_sessions THEN 0 ELSE 1,
               session |-> None ]
    ELSE LET deviceless_session_id == UlidFromDatetimeWithSource(created_at, rng)
         IN  [ index |-> devices_to_compat_sessions,
               session_id |-> deviceless_session_id,
               draws |-> 1,
               session |-> Some(DevicelessSession(deviceless_session_id, user_id,
                                                  created_at)) ]

\* valid_until_ms.map(DateTime::from)
ExpiresAt(valid_until_ms) ==
    IF IsSome(valid_until_ms) THEN Some(DateTimeFromMs(Unwrap(valid_until_ms))) ELSE None

\* The access-token stage skipping the tokens of deactivated users.
MigrateAccessTokensRow_SkipsDeactivated(failAt, now) ==
    /\ HasRow("unrefreshable_access_tokens")
    /\ LET tok == synapse.access_tokens[pos + 1]
           username == ExtractLocalpart(tok.user_id, server_name)
           user_id == LookupUser(Unwrap(username))
           created_at == CreatedAt(tok.last_validated, now)
           s == SessionForToken(tok, Unwrap(user_id), created_at)
           w1 == IF IsSome(s.session)
                 THEN BufWrite(Writer, failAt, "compat_sessions", Unwrap(s.session),
                               "failed to write deviceless compat sessions")
                 ELSE Writer
           w2 == BufWrite(w1, failAt, "compat_access_tokens",
                    [ token_id |-> UlidFromDatetimeWithSource(created_at, rng + s.draws),
                      session_id |-> s.session_id,
                      access_token |-> tok.token,
                      created_at |-> created_at,
                      expires_at |-> ExpiresAt(tok.valid_until_ms) ],
                    "writing compat access tokens")
       IN  IF \E i \in 1..Len(synapse.users) :
                 synapse.users[i].name = tok.user_id /\ synapse.users[i].deactivated
           THEN /\ pos' = pos + 1
                /\ UNCHANGED << pc, result, rng, devices_to_compat_sessions, buf, mas,
                                emitted, started >>
                /\ UNCHANGED hvars
           ELSE IF username = None
           THEN /\ RowRejected(Err("ExtractLocalpart", "", tok.user_id))
                /\ UNCHANGED << rng, devices_to_compat_sessions >>
           ELSE IF user_id = None
           THEN /\ RowRejected(Err("MissingUserFromDependentTable", "access_tokens",
                                   tok.user_id))
                /\ UNCHANGED << rng, devices_to_compat_sessions >>
           ELSE /\ devices_to_compat_sessions' = s.index
                /\ rng' = IF w1.err # None THEN rng + s.draws ELSE rng + s.draws + 1
                /\ RowWritten(w2)
    /\ UNCHANGED << synapse, user_localparts_to_uuid, synapse_admins >>

\* migrate_unrefreshable_access_tokens: one iteration of the loop.
MigrateAccessTokensRow(failAt, now) ==
    /\ HasRow("unrefreshable_access_tokens")
    /\ LET tok == synapse.access_tokens[pos + 1]
           username == ExtractLocalpart(tok.user_id, server_name)
           user_id == LookupUser(Unwrap(username))
           created_at == CreatedAt(tok.last_validated, now)
           s == SessionForToken(tok, Unwrap(user_id), created_at)
           w1 == IF IsSome(s.session)
                 THEN BufWrite(Writer, failAt, "compat_sessions", Unwrap(s.session),
                               "failed to write deviceless compat sessions")
                 ELSE Writer
           w2 == BufWrite(w1, failAt, "compat_access_tokens",
                    [ token_id |-> UlidFromDatetimeWithSource(created_at, rng + s.draws),
                      session_id |-> s.session_id,
                      access_token |-> tok.token,
                      created_at |-> created_at,
                      expires_at |-> ExpiresAt(tok.valid_until_ms) ],
                    "writing compat access tokens")
       IN  IF username = None
           THEN /\ RowRejected(Err("ExtractLocalpart", "", tok.user_id))
                /\ UNCHANGED << rng, devices_to_compat_sessions >>
           ELSE IF user_id = None
           THEN /\ RowRejected(Err("MissingUserFromDependentTable", "access_tokens",
                                   tok.user_id))
                /\ UNCHANGED << rng, devices_to_compat_sessions >>
           ELSE /\ devices_to_compat_sessions' = s.index
                /\ rng' = IF w1.err # None THEN rng + s.draws ELSE rng + s.draws + 1
                /\ RowWritten(w2)
    /\ UNCHANGED << synapse, user_localparts_to_uuid, synapse_admins >>

\* migrate_unrefreshable_access_tokens: the stream has ended.
MigrateAccessTokensFinish(failAt) ==
    /\ AtEnd("unrefreshable_access_tokens")
    /\ LET w1 == BufFinish(Writer, failAt, "compat_access_tokens",
                           "writing compat access tokens")
           w2 == BufFinish(w1, failAt, "compat_sessions",
                           "writing deviceless compat sessions")
       IN  StageFinished(w2)
    /\ UNCHANGED << synapse, rng, user_localparts_to_uuid, synapse_admins,
                    devices_to_compat_sessions >>

\* A refresh token linked to itself instead of to its access token.
RefreshToken_LinksItself(pair, refresh_token_id, session_id, access_token_id, created_at) ==
    [ refresh_token_id |-> refresh_token_id,
      session_id |-> session_id,
      access_token_id |-> refresh_token_id,
      refresh_token |-> pair.refresh_token,
      created_at |-> created_at ]

\* MasNewCompatRefreshToken of a refreshable pair.
RefreshToken(pair, refresh_token_id, session_id, access_token_id, created_at) ==
    [ refresh_token_id |-> refresh_token_id,
      session_id |-> session_id,
      access_token_id |-> access_token_id,
      refresh_token |-> pair.refresh_token,
      created_at |-> created_at ]

\* migrate_refreshable_token_pairs: one iteration of the loop.
MigrateTokenPairsRow(failAt, now) ==
    /\ HasRow("refreshable_token_pairs")
    /\ LET pair == synapse.refreshable_pairs[pos + 1]
           username == ExtractLocalpart(pair.user_id, server_name)
           user_id == LookupUser(Unwrap(username))
           created_at == CreatedAt(pair.last_validated, now)
           key == << Unwrap(user_id), pair.device_id >>
           hit == key \in DOMAIN devices_to_compat_sessions
           index == EntryOrInsert(devices_to_compat_sessions, key,
                                  UlidFromDatetimeWithSource(created_at, rng))
           r == IF hit THEN rng ELSE rng + 1
           access_token_id == UlidFromDatetimeWithSource(created_at, r)
           refresh_token_id == UlidFromDatetimeWithSource(created_at, r + 1)
           w1 == BufWrite(Writer, failAt, "compat_access_tokens",
                    [ token_id |-> access_token_id,
                      session_id |-> index[key],
                      access_token |-> pair.access_token,
                      created_at |-> created_at,
                      expires_at |-> ExpiresAt(pair.valid_until_ms) ],
                    "writing compat access tokens")
           w2 == BufWrite(w1, failAt, "compat_refresh_tokens",
                    RefreshToken(pair, refresh_token_id, index[key], access_token_id,
                                 created_at),
                    "writing compat refresh tokens")
       IN  IF username = None
           THEN /\ RowRejected(Err("ExtractLocalpart", "", pair.user_id))
                /\ UNCHANGED << rng, devices_to_compat_sessions >>
           ELSE IF user_id = None
           THEN /\ RowRejected(Err("MissingUserFromDependentTable", "refresh_tokens",
                                   pair.user_id))
                /\ UNCHANGED << rng, devices_to_compat_sessions >>
           ELSE /\ devices_to_compat_sessions' = index
                /\ rng' = r + 2
                /\ RowWritten(w2)
    /\ UNCHANGED << synapse, user_localparts_to_uuid, synapse_admins >>

\* The pair stage returning with the refresh-token buffer never finished.
MigrateTokenPairsFinish_SkipsRefreshBuffer(failAt) ==
    /\ AtEnd("refreshable_token_pairs")
    /\ LET w1 == BufFinish(Writer, failAt, "compat_access_tokens",
                           "writing compat access tokens")
       IN  StageFinished(w1)
    /\ UNCHANGED << synapse, rng, user_localparts_to_uuid, synapse_admins,
                    devices_to_compat_sessions >>

\* migrate_refreshable_token_pairs: the stream has ended.
MigrateTokenPairsFinish(failAt) ==
    /\ AtEnd("refreshable_token_pairs")
    /\ LET w1 == BufFinish(Writer, failAt, "compat_access_tokens",
                           "writing compat access tokens")
           w2 == BufFinish(w1, failAt, "compat_refresh_tokens",
                           "writing compat refresh tokens")
       IN  StageFinished(w2)
    /\ UNCHANGED << synapse, rng, user_localparts_to_uuid, synapse_admins,
                    devices_to_compat_sessions >>

\* ------------------------------------------------------------- device stage
\* A device session that never carries the admin flag.
CompatSessionForDevice_NeverAdmin(device, user_id, session_id) ==
    [ session_id |-> session_id,
      user_id |-> user_id,
      device_id |-> Some(device.device_id),
      human_name |-> device.display_name,
      created_at |-> UlidDatetime(session_id),
      is_synapse_admin |-> FALSE,
      last_active_at |-> IF IsSome(device.last_seen)
                         THEN Some(DateTimeFromMs(Unwrap(device.last_seen)))
                         ELSE None,
      last_active_ip |-> ParseIp(device.ip),
      user_agent |-> device.user_agent ]

\* MasNewCompatSession of a device: dated by its session ID.
CompatSessionForDevice(device, user_id, session_id) ==
    [ session_id |-> session_id,
      user_id |-> user_id,
      device_id |-> Some(device.device_id),
      human_name |-> device.display_name,
      created_at |-> UlidDatetime(session_id),
      is_synapse_admin |-> user_id \in synapse_admins,
      last_active_at |-> IF IsSome(device.last_seen)
                         THEN Some(DateTimeFromMs(Unwrap(device.last_seen)))
                         ELSE None,
      last_active_ip |-> ParseIp(device.ip),
      user_agent |-> device.user_agent ]

\* migrate_devices: one iteration of the loop.
MigrateDevicesRow(failAt, system_now) ==
    /\ HasRow("devices")
    /\ LET device == synapse.devices[pos + 1]
           username == ExtractLocalpart(device.user_id, server_name)
           user_id == LookupUser(Unwrap(username))
           key == << Unwrap(user_id), device.device_id >>
           hit == key \in DOMAIN devices_to_compat_sessions
           index == EntryOrInsert(devices_to_compat_sessions, key,
                                  UlidWithSource(system_now, rng))
       IN  IF username = None
           THEN /\ RowRejected(Err("ExtractLocalpart", "", device.user_id))
                /\ UNCHANGED << rng, devices_to_compat_sessions >>
           ELSE IF user_id = None
           THEN /\ RowRejected(Err("MissingUserFromDependentTable", "devices",
                                   device.user_id))
                /\ UNCHANGED << rng, devices_to_compat_sessions >>
           ELSE /\ devices_to_compat_sessions' = index
                /\ rng' = IF hit THEN rng ELSE rng + 1
                /\ RowWritten(BufWrite(Writer, failAt, "compat_sessions",
                        CompatSessionForDevice(device, Unwrap(user_id), index[key]),
                        "writing compat sessions"))
    /\ UNCHANGED << synapse, user_localparts_to_uuid, synapse_admins >>

\* migrate_devices: the stream has ended.
MigrateDevicesFinish(failAt) ==
    /\ AtEnd("devices")
    /\ StageFinished(BufFinish(Writer, failAt, "compat_sessions", "writing compat sessions"))
    /\ UNCHANGED << synapse, rng, user_localparts_to_uuid, synapse_admins,
                    devices_to_compat_sessions >>

\* ------------------------------------------------------------ specification
Next ==
    \/ CountRows
    \/ SourceReadError
    \/ \E failAt \in FlushFaults : MigrateUsersRow(failAt)
    \/ \E failAt \in FlushFaults : MigrateUsersFinish(failAt)
    \/ \E failAt \in FlushFaults : MigrateThreepidsRow(failAt)
    \/ \E failAt \in FlushFaults : MigrateThreepidsFinish(failAt)
    \/ \E failAt \in FlushFaults : MigrateExternalIdsRow(failAt)
    \/ \E failAt \in FlushFaults : MigrateExternalIdsFinish(failAt)
    \/ \E failAt \in FlushFaults, now \in ClockReadings : MigrateAccessTokensRow(failAt, now)
    \/ \E failAt \in FlushFaults : MigrateAccessTokensFinish(failAt)
    \/ \E failAt \in FlushFaults, now \in ClockReadings : MigrateTokenPairsRow(failAt, now)
    \/ \E failAt \in FlushFaults : MigrateTokenPairsFinish(failAt)
    \/ \E failAt \in FlushFaults, system_now \in SystemTimeReadings :
          MigrateDevicesRow(failAt, system_now)
    \/ \E failAt \in FlushFaults : MigrateDevicesFinish(failAt)

Spec == Init /\ [][Next]_vars

\* ------------------------------------------------- policy-data set handler
\* The data of a request: JSON values, written as their JSON text.
RequestData == { "null", "true", "42", "{}", "{hello:world}" }

\* PolicyDataRepository::set(rng, clock, data): the new row, dated by the
\* clock, carrying the data as given.
PolicyDataSet(data, now, r) ==
    [ id |-> UlidFromDatetimeWithSource(now, r), created_at |-> now, data |-> data ]

\* SingleResponse::new_canonical(policy_data.into())
SingleResponse(row) ==
    [ type |-> "policy-data", id |-> row.id,
      attributes |-> [ created_at |-> row.created_at, data |-> row.data ] ]

\* ErrorResponse::from_error(&self)
ErrorResponse == [ type |-> "error", id |-> [ ts |-> 0, rand |-> 0 ],
                   attributes |-> [ created_at |-> 0, data |-> "" ] ]

\* The handler returns: axum turns the result into the response.
Answer(status, body, made) ==
    /\ responses' = Append(responses, [ status |-> status, body |-> body,
                                        request |-> Unwrap(request), calls |-> made ])
    /\ calls' = made
    /\ hpc' = "idle"
    /\ request' = None

\* RouteError::into_response: any error answers 500; the transaction is
\* dropped with the repository.
AnswerError(made) ==
    /\ Answer(500, ErrorResponse, made)
    /\ policy_data' = None
    /\ policy_table' = policy_table

\* The request is extracted and the handler is called.
HandlerReceive(data) ==
    /\ hpc = "idle"
    /\ Len(responses) < MaxRequests
    /\ request' = Some(data)
    /\ hpc' = "set"
    /\ calls' = << >>
    /\ UNCHANGED << policy_data, policy_table, responses >>
    /\ UNCHANGED vars

\* A handler that goes on to save after a failed store.
HandlerSet_SavesAfterError(fails, now) ==
    /\ hpc = "set"
    /\ calls' = Append(calls, [ op |-> "set", ok |-> ~fails ])
    /\ policy_data' = IF fails THEN None
                      ELSE Some(PolicyDataSet(Unwrap(request), now, Len(responses)))
    /\ hpc' = "save"
    /\ UNCHANGED << request, policy_table, responses >>
    /\ UNCHANGED vars

\* repo.policy_data().set(&mut rng, &clock, request.data).await?
HandlerSet(fails, now) ==
    /\ hpc = "set"
    /\ IF fails
       THEN AnswerError(Append(calls, [ op |-> "set", ok |-> FALSE ]))
       ELSE /\ calls' = Append(calls, [ op |-> "set", ok |-> TRUE ])
            /\ policy_data' = Some(PolicyDataSet(Unwrap(request), now, Len(responses)))
            /\ hpc' = "save"
            /\ UNCHANGED << request, policy_table, responses >>
    /\ UNCHANGED vars

\* repo.save().await?
HandlerSave(fails) ==
    /\ hpc = "save"
    /\ IF fails
       THEN AnswerError(Append(calls, [ op |-> "save", ok |-> FALSE ]))
       ELSE /\ calls' = Append(calls, [ op |-> "save", ok |-> TRUE ])
            /\ policy_table' = Append(policy_table, Unwrap(policy_data))
            /\ hpc' = "respond"
            /\ UNCHANGED << request, policy_data, responses >>
    /\ UNCHANGED vars

\* Ok((StatusCode::CREATED, Json(SingleResponse::new_canonical(..))))
HandlerRespond ==
    /\ hpc = "respond"
    /\ Answer(201, SingleResponse(Unwrap(policy_data)), calls)
    /\ policy_data' = None
    /\ policy_table' = policy_table
    /\ UNCHANGED vars

\* The handler serves requests on an empty repository; no migration runs.
HandlerInit ==
    /\ HandlerIdle
    /\ synapse = [ users |-> << >>, threepids |-> << >>, external_ids |-> << >>,
                   access_tokens |-> << >>, refreshable_pairs |-> << >>, devices |-> << >> ]
    /\ pc = "count_rows"
    /\ pos = 0
    /\ rng = 0
    /\ user_localparts_to_uuid = << >>
    /\ synapse_admins = { }
    /\ devices_to_compat_sessions = << >>
    /\ buf = [ t \in Tables |-> << >> ]
    /\ mas = << >>
    /\ emitted = << >>
    /\ started = << >>
    /\ result = None

HandlerNext ==
    \/ \E data \in RequestData : HandlerReceive(data)
    \/ \E fails \in BOOLEAN, now \in ClockReadings : HandlerSet(fails, now)
    \/ \E fails \in BOOLEAN : HandlerSave(fails)
    \/ HandlerRespond

HandlerSpec == HandlerInit /\ [][HandlerNext]_hvars

\* ================================================================== claims
Succeeded == result = Some(Ok)

\* Positions of the rows of a table in the history of emitted rows and in
\* the destination.
EmittedIdx(table) == { i \in 1..Len(emitted) : emitted[i].table = table }

MasIdx(table) == { i \in 1..Len(mas) : mas[i].table = table }

\* The source row an emitted row was made from.
SourceRow(e) ==
    CASE e.stage = "users" -> synapse.users[e.src]
      [] e.stage = "threepids" -> synapse.threepids[e.src]
      [] e.stage = "external_ids" -> synapse.external_ids[e.src]
      [] e.stage = "unrefreshable_access_tokens" -> synapse.access_tokens[e.src]
      [] e.stage = "refreshable_token_pairs" -> synapse.refreshable_pairs[e.src]
      [] e.stage = "devices" -> synapse.devices[e.src]

\* The stage that is active: none before the first and after the last.
ActiveStages == IF pc \in Stages THEN { pc } ELSE { }

\* The running stage has read its whole stream and holds no buffered row.
StageReturnsOk ==
    /\ pc \in Stages
    /\ pos = Len(StreamOf(pc))
    /\ result = None
    /\ \A t \in Tables : buf'[t] = << >>

\* C1: the stages start in the order users, threepids, external_ids,
\* unrefreshable_access_tokens, refreshable_token_pairs, devices; no stage
\* starts twice; the active stage is the last one started; and a stage
\* starts only in the step in which the previous stage returns Ok.
C1_StagesInFixedOrder ==
    /\ [](/\ Len(started) <= Len(StageOrder)
          /\ started = SubSeq(StageOrder, 1, Len(started))
          /\ \A s \in ActiveStages : started # << >> /\ s = started[Len(started)])
    /\ [][started' # started =>
            /\ started' = Append(started, StageOrder[Len(started) + 1])
            /\ pc' = StageOrder[Len(started) + 1]
            /\ pc = "count_rows" \/ (StageReturnsOk /\ pc = StageOrder[Len(started)])]_vars

\* A migration that ran all six stages over a source with tokens and devices.
C1_Witness ==
    /\ Succeeded
    /\ started = StageOrder
    /\ MasIdx("compat_sessions") # { }
    /\ MasIdx("compat_access_tokens") # { }

TokenTables == { "compat_access_tokens", "compat_refresh_tokens" }

EmittedTokens == { i \in 1..Len(emitted) : emitted[i].table \in TokenTables }

EmittedSessions == EmittedIdx("compat_sessions")

MasTokens == { i \in 1..Len(mas) : mas[i].table \in TokenTables }

MasSessions == MasIdx("compat_sessions")

\* C2: after a successful migration every emitted access token and refresh
\* token carries the session_id of an emitted DestCompatSession row.
C2_TokensReferenceEmittedSessions ==
    Succeeded =>
        \A i \in EmittedTokens :
            \E j \in EmittedSessions : emitted[j].row.session_id = emitted[i].row.session_id

\* The (user, device) pairs with a device that the source names, in the
\* device table or in a token.
SourcePairs ==
    { << synapse.access_tokens[i].user_id, Unwrap(synapse.access_tokens[i].device_id) >> :
        i \in { n \in 1..Len(synapse.access_tokens) :
                  IsSome(synapse.access_tokens[n].device_id) } }
    \cup { << synapse.refreshable_pairs[i].user_id, synapse.refreshable_pairs[i].device_id >> :
             i \in 1..Len(synapse.refreshable_pairs) }
    \cup { << synapse.devices[i].user_id, synapse.devices[i].device_id >> :
             i \in 1..Len(synapse.devices) }

\* The destination's sessions of a source (user, device) pair.
SessionsOfPair(k) ==
    { j \in MasSessions :
        /\ k[1].localpart \in DOMAIN user_localparts_to_uuid
        /\ mas[j].row.user_id = user_localparts_to_uuid[k[1].localpart]
        /\ mas[j].row.device_id = Some(k[2]) }

\* C3: after a successful migration every (user, device) pair of the source
\* device table or of a source token has exactly one DestCompatSession.
C3_ExactlyOneSessionPerSourcePair ==
    Succeeded => \A k \in SourcePairs : Cardinality(SessionsOfPair(k)) = 1

\* The destination holds at most one session per (user, device).
OneSessionPerDevice ==
    \A i, j \in MasSessions :
        ( /\ IsSome(mas[i].row.device_id)
          /\ mas[i].row.user_id = mas[j].row.user_id
          /\ mas[i].row.device_id = mas[j].row.device_id ) => i = j

\* The source device stream yields every (user_id, device_id) at most once.
DevicesListedOnce ==
    \A i, j \in 1..Len(synapse.devices) :
        ( /\ synapse.devices[i].user_id = synapse.devices[j].user_id
          /\ synapse.devices[i].device_id = synapse.devices[j].device_id ) => i = j

\* C4 as stated: at every point the destination holds at most one
\* DestCompatSession per (user, device), whatever the streams yield.
C4_AtMostOneSessionWhateverTheSource == OneSessionPerDevice

\* C4 as amended: at every point the destination holds at most one
\* DestCompatSession per (user, device), provided the source device stream
\* yields every (user_id, device_id) pair at most once.
C4_AtMostOneSessionPerListedDevice == DevicesListedOnce => OneSessionPerDevice

\* Two devices listed once each, one of them with a token, and both
\* sessions in the destination.
C4_Witness ==
    /\ Succeeded
    /\ DevicesListedOnce
    /\ Len(synapse.devices) = 2
    /\ \E i \in 1..Len(synapse.access_tokens) : IsSome(synapse.access_tokens[i].device_id)
    /\ Cardinality(MasSessions) = 2

\* C5 as stated: no access token and no refresh token is inserted before
\* the DestCompatSession row it references.
C5_NoTokenBeforeItsSession ==
    \A i \in MasTokens :
        \E j \in MasSessions : j < i /\ mas[j].row.session_id = mas[i].row.session_id

\* C5 as amended: a DestCompatSession row with a device is inserted only
\* after every emitted access token and refresh token that references it.
C5_DeviceSessionAfterItsTokens ==
    \A i \in MasSessions :
        IsSome(mas[i].row.device_id) =>
            \A e \in EmittedTokens :
                emitted[e].row.session_id = mas[i].row.session_id =>
                    \E j \in 1..(i - 1) :
                        mas[j].table = emitted[e].table /\ mas[j].row = emitted[e].row

\* A device session in the destination with an access token and a refresh
\* token that reference it.
C5_Witness ==
    \E i \in MasSessions :
        /\ IsSome(mas[i].row.device_id)
        /\ \E j \in MasIdx("compat_access_tokens") :
               mas[j].row.session_id = mas[i].row.session_id
        /\ \E j \in MasIdx("compat_refresh_tokens") :
               mas[j].row.session_id = mas[i].row.session_id

EmittedAccessTokens == EmittedIdx("compat_access_tokens")

\* The emitted access token i is the first one of its session.
FirstTokenOfSession(i) ==
    \A k \in EmittedAccessTokens :
        emitted[k].row.session_id = emitted[i].row.session_id => i <= k

\* The session an access token references is not newer than the token.
SessionNotNewer(i) ==
    \A j \in EmittedSessions :
        emitted[j].row.session_id = emitted[i].row.session_id =>
            emitted[j].row.created_at <= emitted[i].row.created_at

\* C6 as stated: the created-at of the session of every emitted access
\* token is at most the access token's created-at.
C6_SessionNotNewerThanAnyToken == \A i \in EmittedAccessTokens : SessionNotNewer(i)

\* C6 as amended: the created-at of the session is at most the created-at
\* of the first token the streams yield for the (user, device) pair, and of
\* a deviceless token; a later token of the device may be older.
C6_SessionNotNewerThanFirstToken ==
    \A i \in EmittedAccessTokens : FirstTokenOfSession(i) => SessionNotNewer(i)

\* A device session dated by a first token that the clock dated, truncated
\* to the millisecond, and a second token of the device that is older.
C6_Witness ==
    \E i, k \in EmittedAccessTokens, j \in EmittedSessions :
        /\ FirstTokenOfSession(i)
        /\ i < k
        /\ emitted[k].row.session_id = emitted[i].row.session_id
        /\ emitted[j].row.session_id = emitted[i].row.session_id
        /\ emitted[j].stage = "devices"
        /\ emitted[j].row.created_at < emitted[i].row.created_at
        /\ emitted[k].row.created_at < emitted[j].row.created_at

\* The source user with this MAS user ID is a Synapse admin.
AdminUser(user_id) ==
    \E i \in 1..Len(synapse.users) :
        /\ synapse.users[i].admin
        /\ synapse.users[i].name.localpart \in DOMAIN user_localparts_to_uuid
        /\ user_localparts_to_uuid[synapse.users[i].name.localpart] = user_id

\* C7 as stated: every DestCompatSession of an admin user, of a device or
\* deviceless, has is_synapse_admin = true.
C7_EverySessionOfAdminIsAdmin ==
    \A j \in EmittedSessions :
        AdminUser(emitted[j].row.user_id) => emitted[j].row.is_synapse_admin

\* C7 as amended: every DestCompatSession the device stage emits for an
\* admin user has is_synapse_admin = true; the deviceless sessions of the
\* token stage have is_synapse_admin = false for every user.
C7_DeviceSessionOfAdminIsAdmin ==
    \A j \in EmittedSessions :
        IF emitted[j].stage = "devices"
        THEN AdminUser(emitted[j].row.user_id) => emitted[j].row.is_synapse_admin
        ELSE ~emitted[j].row.is_synapse_admin

\* An admin with a device session and a deviceless session, and a device
\* session of a user who is no admin.
C7_Witness ==
    \E i, j, k \in EmittedSessions :
        /\ emitted[i].stage = "devices" /\ AdminUser(emitted[i].row.user_id)
        /\ emitted[i].row.is_synapse_admin
        /\ emitted[j].stage # "devices" /\ AdminUser(emitted[j].row.user_id)
        /\ emitted[k].stage = "devices" /\ ~emitted[k].row.is_synapse_admin

\* The emitted session j is that of a device without any token.
DeviceWithoutToken(j) ==
    /\ emitted[j].stage = "devices"
    /\ \A t \in EmittedTokens : emitted[t].row.session_id # emitted[j].row.session_id

\* C8: the session of a device without tokens is dated by a reading of the
\* injected clock, and its ID is recorded in the session index.
C8_DeviceWithoutTokenDatedByInjectedClock ==
    \A j \in EmittedSessions :
        DeviceWithoutToken(j) =>
            /\ emitted[j].row.created_at \in ClockReadings
            /\ << emitted[j].row.user_id, Unwrap(emitted[j].row.device_id) >>
                   \in DOMAIN devices_to_compat_sessions
            /\ devices_to_compat_sessions[<< emitted[j].row.user_id,
                                              Unwrap(emitted[j].row.device_id) >>]
                   = emitted[j].row.session_id

\* The source (user, device) of an emitted token, the device as an option.
TokenPair(e) ==
    IF e.stage = "unrefreshable_access_tokens"
    THEN << SourceRow(e).user_id, SourceRow(e).device_id >>
    ELSE << SourceRow(e).user_id, Some(SourceRow(e).device_id) >>

\* The first emitted token of the (user, device) pair of the emitted token i.
FirstTokenOfPair(i) ==
    CHOOSE f \in EmittedTokens :
        /\ TokenPair(emitted[f]) = TokenPair(emitted[i])
        /\ \A k \in EmittedTokens :
               TokenPair(emitted[k]) = TokenPair(emitted[i]) => f <= k

\* The created_at the code gives a source token: last_validated, or a
\* reading of the injected clock when it is null.
IsCreatedAtOf(created_at, tok) ==
    IF IsSome(tok.last_validated)
    THEN created_at = DateTimeFromMs(Unwrap(tok.last_validated))
    ELSE created_at \in ClockReadings

\* C9: all tokens of a (user, device) pair carry one session_id, minted from
\* the created_at of the first token the streams yield for the pair, and the
\* device stage emits the session with that ID, dated by the ID's timestamp.
C9_TokensOfDeviceShareFirstTokensSession ==
    \A i \in EmittedTokens :
        IsSome(TokenPair(emitted[i])[2]) =>
            LET first == emitted[FirstTokenOfPair(i)]
                pair == TokenPair(emitted[i])
            IN  /\ emitted[i].row.session_id = first.row.session_id
                /\ IsCreatedAtOf(first.row.created_at, SourceRow(first))
                /\ first.row.session_id.ts = first.row.created_at \div TicksPerMs
                /\ \A j \in EmittedSessions :
                       ( /\ emitted[j].stage = "devices"
                         /\ SourceRow(emitted[j]).user_id = pair[1]
                         /\ Some(SourceRow(emitted[j]).device_id) = pair[2] ) =>
                           /\ emitted[j].row.session_id = first.row.session_id
                           /\ emitted[j].row.created_at
                                  = first.row.session_id.ts * TicksPerMs
                /\ Succeeded =>
                       \A d \in 1..Len(synapse.devices) :
                           ( /\ synapse.devices[d].user_id = pair[1]
                             /\ Some(synapse.devices[d].device_id) = pair[2] ) =>
                               \E j \in EmittedSessions :
                                   /\ emitted[j].stage = "devices"
                                   /\ emitted[j].src = d

\* A device with a token in each pass, the second older than the first, and
\* its session emitted by the device stage.
C9_Witness ==
    \E i, k \in EmittedAccessTokens, j \in EmittedSessions :
        /\ emitted[i].stage = "unrefreshable_access_tokens"
        /\ emitted[k].stage = "refreshable_token_pairs"
        /\ TokenPair(emitted[i]) = TokenPair(emitted[k])
        /\ emitted[k].row.created_at < emitted[i].row.created_at
        /\ emitted[j].stage = "devices"
        /\ emitted[j].row.session_id = emitted[k].row.session_id

\* The source access tokens without a device.
DevicelessTokens ==
    { n \in 1..Len(synapse.access_tokens) : synapse.access_tokens[n].device_id = None }

\* The source access token n has been migrated.
TokenMigrated(n) ==
    \/ pc = "unrefreshable_access_tokens" /\ n <= pos
    \/ pc \in { "refreshable_token_pairs", "devices", "done" }
    \/ pc = "failed" /\ \E i \in 1..Len(started) : started[i] = "refreshable_token_pairs"

\* C10: a deviceless source access token yields exactly one session, minted
\* afresh and emitted in the token stage with null device, null human name,
\* is_synapse_admin = false and null last-active fields, referenced by that
\* token only; after a successful migration the sessions without a device
\* are as many as the source access tokens without a device.
C10_OneFreshSessionPerDevicelessToken ==
    /\ \A j \in EmittedSessions :
           emitted[j].row.device_id = None =>
               /\ emitted[j].stage = "unrefreshable_access_tokens"
               /\ SourceRow(emitted[j]).device_id = None
               /\ emitted[j].row.human_name = None
               /\ ~emitted[j].row.is_synapse_admin
               /\ emitted[j].row.last_active_at = None
               /\ emitted[j].row.last_active_ip = None
               /\ emitted[j].row.user_agent = None
               /\ \A k \in EmittedSessions :
                      emitted[k].row.session_id = emitted[j].row.session_id => k = j
               /\ \A key \in DOMAIN devices_to_compat_sessions :
                      devices_to_compat_sessions[key] # emitted[j].row.session_id
               /\ \A t \in EmittedTokens :
                      emitted[t].row.session_id = emitted[j].row.session_id =>
                          emitted[t].stage = emitted[j].stage /\ emitted[t].src = emitted[j].src
    /\ \A n \in DevicelessTokens :
           TokenMigrated(n) /\ pc # "failed" =>
               /\ Cardinality({ j \in EmittedSessions :
                       /\ emitted[j].stage = "unrefreshable_access_tokens"
                       /\ emitted[j].src = n }) = 1
               /\ \A j \in EmittedSessions :
                      emitted[j].stage = "unrefreshable_access_tokens" /\ emitted[j].src = n =>
                          Cardinality({ t \in EmittedTokens :
                              emitted[t].row.session_id = emitted[j].row.session_id }) = 1
    /\ Succeeded =>
           Cardinality({ j \in MasSessions : mas[j].row.device_id = None })
               = Cardinality(DevicelessTokens)

\* A successful migration of two deviceless tokens of one user and of a
\* device of that user.
C10_Witness ==
    /\ Succeeded
    /\ \E m, n \in DevicelessTokens :
           m # n /\ synapse.access_tokens[m].user_id = synapse.access_tokens[n].user_id
    /\ Cardinality({ j \in MasSessions : mas[j].row.device_id = None }) = 2
    /\ \E j \in MasSessions : IsSome(mas[j].row.device_id)

\* C11: no session row is emitted in the token stages for a token with a
\* device: the session rows emitted or inserted before the device stage are
\* those of deviceless access tokens, and the session ID of a token with a
\* device is found in the index.
C11_TokenStagesEmitOnlyDevicelessSessions ==
    /\ \A j \in EmittedSessions :
           emitted[j].stage # "devices" =>
               /\ emitted[j].stage = "unrefreshable_access_tokens"
               /\ SourceRow(emitted[j]).device_id = None
               /\ emitted[j].row.device_id = None
    /\ pc \in Stages \ { "devices" } =>
           \A j \in MasSessions : mas[j].row.device_id = None
    /\ \A t \in EmittedTokens :
           IsSome(TokenPair(emitted[t])[2]) =>
               \E key \in DOMAIN devices_to_compat_sessions :
                   /\ key[2] = Unwrap(TokenPair(emitted[t])[2])
                   /\ devices_to_compat_sessions[key] = emitted[t].row.session_id

\* The refreshable-pair stage is running after tokens with a device and a
\* deviceless token were migrated: one session row, of the deviceless token.
C11_Witness ==
    /\ pc = "refreshable_token_pairs"
    /\ pos = 1
    /\ \E t \in EmittedAccessTokens :
           /\ emitted[t].stage = "unrefreshable_access_tokens"
           /\ IsSome(TokenPair(emitted[t])[2])
    /\ Cardinality(EmittedSessions) = 1

EmittedRefreshTokens == EmittedIdx("compat_refresh_tokens")

\* The emitted access tokens a refresh token links to.
AccessTokensOf(r) ==
    { a \in EmittedAccessTokens : emitted[a].row.token_id = emitted[r].row.access_token_id }

\* C12: the access_token_id of every emitted refresh token is the ID of
\* exactly one emitted access token, emitted in the refreshable-pair stage
\* for the same source pair, with the same session_id and created-at.
C12_RefreshTokenLinksItsAccessToken ==
    \A r \in EmittedRefreshTokens :
        /\ emitted[r].stage = "refreshable_token_pairs"
        /\ Cardinality(AccessTokensOf(r)) = 1
        /\ \A a \in AccessTokensOf(r) :
               /\ emitted[a].stage = "refreshable_token_pairs"
               /\ emitted[a].src = emitted[r].src
               /\ emitted[a].row.session_id = emitted[r].row.session_id
               /\ emitted[a].row.created_at = emitted[r].row.created_at

\* Two refreshable pairs of one device after an unrefreshable token of it.
C12_Witness ==
    /\ Cardinality(EmittedRefreshTokens) = 2
    /\ \E a \in EmittedAccessTokens : emitted[a].stage = "unrefreshable_access_tokens"
    /\ \A r \in EmittedRefreshTokens : AccessTokensOf(r) # { }

\* The user ID column of a source row.
RowUser(stage, row) == IF stage = "users" THEN row.name ELSE row.user_id

DependentStages == Stages \ { "users" }

\* The table name a dependent stage reports a missing user with.
DependentTable(stage) ==
    CASE stage = "threepids" -> "user_threepids"
      [] stage = "external_ids" -> "user_external_ids"
      [] stage = "unrefreshable_access_tokens" -> "access_tokens"
      [] stage = "refreshable_token_pairs" -> "refresh_tokens"
      [] stage = "devices" -> "devices"

\* The user of a dependent row is a user of this server missing from the
\* localpart index.
MissingUser(stage, row) ==
    LET localpart == ExtractLocalpart(row.user_id, server_name)
    IN  /\ stage \in DependentStages
        /\ IsSome(localpart)
        /\ Unwrap(localpart) \notin DOMAIN user_localparts_to_uuid

\* The error a source row is rejected with, if any: invalid user ID,
\* missing user, missing auth-provider mapping.
RowError(stage, row) ==
    IF ExtractLocalpart(RowUser(stage, row), server_name) = None
    THEN Some(Err("ExtractLocalpart", "", RowUser(stage, row)))
    ELSE IF MissingUser(stage, row)
    THEN Some(Err("MissingUserFromDependentTable", DependentTable(stage), row.user_id))
    ELSE IF stage = "external_ids" /\ row.auth_provider \notin DOMAIN provider_id_mapping
    THEN Some(Err("MissingAuthProviderMapping", row.auth_provider, row.user_id))
    ELSE None

IsError(r) == IsSome(r) /\ Unwrap(r) # Ok

\* The step consumes the next row of the running stage.
ConsumesRow == pc \in Stages /\ pos < Len(StreamOf(pc)) /\ pos' = pos + 1

NextRow == StreamOf(pc)[pos + 1]

\* What a step may do once an error can occur: nothing after a failure; a
\* row in error fails the migration with that error and writes nothing; a
\* failing step returns an error, reads no further row, starts no stage
\* and hands to the buffers nothing but rows of the row it was at.
AbortStep ==
    /\ pc # "failed"
    /\ (ConsumesRow /\ RowError(pc, NextRow) # None) =>
           /\ pc' = "failed"
           /\ result' = RowError(pc, NextRow)
           /\ UNCHANGED << buf, mas, emitted, started >>
    /\ pc' = "failed" =>
           /\ IsError(result')
           /\ started' = started
           /\ pos' \in { pos, pos + 1 }
           /\ Unwrap(result').kind = "Synapse" => UNCHANGED << pos, buf, mas, emitted >>
           /\ \A i \in (Len(emitted) + 1)..Len(emitted') :
                  emitted'[i].stage = pc /\ emitted'[i].src = pos + 1
    /\ pc' # "failed" => result' \in { None, Some(Ok) }

\* C13: any error aborts the migration immediately: migrate returns that
\* error, and after it no source row is read, no row is written to a
\* buffer or to the destination, and no later stage starts.
C13_ErrorAbortsImmediately ==
    /\ [](pc = "failed" <=> IsError(result))
    /\ [][AbortStep]_vars

\* A user of another server after a user that is still buffered: the
\* migration has failed with the buffered row never inserted.
C13_Witness ==
    /\ pc = "failed"
    /\ Unwrap(result).kind = "ExtractLocalpart"
    /\ buf["users"] # << >>
    /\ mas = << >>
    /\ started = << "users" >>

\* C14: in each dependent stage a row whose localpart is not in the
\* localpart index fails the migration with MissingUserFromDependentTable
\* carrying the row's user ID and the stage's table name; no row is
\* emitted for it and the session index is not changed.
C14_MissingUserFailsDependentStage ==
    [][ (ConsumesRow /\ MissingUser(pc, NextRow)) =>
            /\ pc' = "failed"
            /\ result' = Some(Err("MissingUserFromDependentTable", DependentTable(pc),
                                   NextRow.user_id))
            /\ UNCHANGED << emitted, buf, mas, devices_to_compat_sessions >> ]_vars

\* A device of a user without a user row, after tokens of a known user
\* filled the session index.
C14_Witness ==
    /\ pc = "failed"
    /\ Unwrap(result).kind = "MissingUserFromDependentTable"
    /\ Unwrap(result).detail = "devices"
    /\ Unwrap(result).user = synapse.devices[pos].user_id
    /\ devices_to_compat_sessions # << >>

EmittedLinks == EmittedIdx("upstream_oauth_links")

\* C15: an external-ID row of a known user with an unmapped auth_provider
\* fails the migration with MissingAuthProviderMapping carrying that
\* auth_provider string and the row's user ID; a row with a mapped
\* provider emits one upstream OAuth link with the mapped provider ID.
C15_ProviderMappedOrMigrationFails ==
    [][ (ConsumesRow /\ pc = "external_ids"
            /\ IsSome(ExtractLocalpart(NextRow.user_id, server_name))
            /\ ~MissingUser(pc, NextRow)) =>
          IF NextRow.auth_provider \notin DOMAIN provider_id_mapping
          THEN /\ pc' = "failed"
               /\ result' = Some(Err("MissingAuthProviderMapping", NextRow.auth_provider,
                                      NextRow.user_id))
               /\ emitted' = emitted
          ELSE /\ Len(emitted') = Len(emitted) + 1
               /\ LET e == emitted'[Len(emitted')]
                  IN  /\ e.table = "upstream_oauth_links"
                      /\ e.src = pos + 1
                      /\ e.row.upstream_provider_id = provider_id_mapping[NextRow.auth_provider]
                      /\ e.row.subject = NextRow.external_id
                      /\ e.row.user_id =
                            user_localparts_to_uuid[Unwrap(ExtractLocalpart(NextRow.user_id,
                                                                           server_name))] ]_vars

\* A row of an unmapped provider after a row of a mapped one.
C15_Witness ==
    /\ pc = "failed"
    /\ Unwrap(result).kind = "MissingAuthProviderMapping"
    /\ Unwrap(result).detail = "saml"
    /\ Unwrap(result).user = synapse.external_ids[pos].user_id
    /\ Cardinality(EmittedLinks) = 1

\* The tables whose rows carry a user_id.
UserIdTables == { "passwords", "email_threepids", "unsupported_threepids",
                  "upstream_oauth_links", "compat_sessions" }

EmittedUsers == EmittedIdx("users")

MasUsers == MasIdx("users")

\* C16: every destination row with a user_id carries the ID of a user row
\* emitted by the user stage, and that user row was inserted before the
\* dependent row is written; a password may be written before its user
\* only inside the user stage.
C16_UserIdsReferToInsertedUsers ==
    /\ \A i \in 1..Len(emitted) :
           emitted[i].table \in UserIdTables =>
               /\ \E u \in EmittedUsers :
                      /\ emitted[u].stage = "users"
                      /\ u < i
                      /\ emitted[u].row.user_id = emitted[i].row.user_id
               /\ emitted[i].stage # "users" =>
                      \E m \in MasUsers : mas[m].row.user_id = emitted[i].row.user_id
    /\ \A i \in 1..Len(mas) :
           (mas[i].table \in UserIdTables
                /\ (mas[i].table = "passwords" => Len(started) > 1)) =>
               \E m \in MasUsers :
                   /\ mas[m].row.user_id = mas[i].row.user_id
                   /\ mas[i].table # "passwords" => m < i

\* A password, an email address and an upstream link of a user inserted.
C16_Witness ==
    /\ pc = "done"
    /\ MasIdx("passwords") # { }
    /\ MasIdx("email_threepids") # { }
    /\ MasIdx("upstream_oauth_links") # { }

EmittedPasswords == EmittedIdx("passwords")

\* The passwords emitted for the source user of an emitted user row.
PasswordsOf(u) == { p \in EmittedPasswords : emitted[p].src = emitted[u].src }

SourceUsersWithHash == { i \in 1..Len(synapse.users) : IsSome(synapse.users[i].password_hash) }

\* C17: after a successful migration there are as many password rows as
\* source users with a password hash: a user with a hash yields exactly one
\* password row, with the user's ID and created-at, a user without a hash
\* yields none.
C17_OnePasswordPerUserWithHash ==
    /\ \A u \in EmittedUsers :
           /\ Cardinality(PasswordsOf(u)) =
                  IF pc = "failed" /\ PasswordsOf(u) = { } THEN 0
                  ELSE IF IsSome(SourceRow(emitted[u]).password_hash) THEN 1 ELSE 0
           /\ \A p \in PasswordsOf(u) :
                  /\ IsSome(SourceRow(emitted[u]).password_hash)
                  /\ emitted[p].row.user_id = emitted[u].row.user_id
                  /\ emitted[p].row.created_at = emitted[u].row.created_at
                  /\ emitted[p].row.hashed_password =
                        Unwrap(SourceRow(emitted[u]).password_hash)
    /\ \A p \in EmittedPasswords : \E u \in EmittedUsers : p \in PasswordsOf(u)
    /\ Succeeded =>
           /\ Cardinality(MasIdx("passwords")) = Cardinality(SourceUsersWithHash)
           /\ Cardinality(EmittedPasswords) = Cardinality(SourceUsersWithHash)
           /\ \A m \in MasIdx("passwords") :
                  \E p \in EmittedPasswords : emitted[p].row = mas[m].row

\* Two users migrated, one with a password hash and one without.
C17_Witness ==
    /\ Succeeded
    /\ Len(synapse.users) = 2
    /\ Cardinality(SourceUsersWithHash) = 1
    /\ Cardinality(MasIdx("passwords")) = 1

\* C18: for every emitted user, locked_at is created_at if and only if the
\* source user is deactivated and is null otherwise, and can_request_admin
\* is the source admin flag.
C18_LockedIffDeactivatedAdminCopied ==
    \A u \in EmittedUsers :
        LET user == SourceRow(emitted[u])
            row == emitted[u].row
        IN  /\ (row.locked_at = Some(row.created_at)) <=> user.deactivated
            /\ ~user.deactivated => row.locked_at = None
            /\ row.can_request_admin = user.admin

\* A deactivated user and an active admin have both been emitted.
C18_Witness ==
    /\ \E u \in EmittedUsers :
           SourceRow(emitted[u]).deactivated /\ ~SourceRow(emitted[u]).admin
    /\ \E u \in EmittedUsers :
           ~SourceRow(emitted[u]).deactivated /\ SourceRow(emitted[u]).admin

\* The ID column of the tables whose rows have an ID and a created-at.
IdOf(e) ==
    CASE e.table = "users" -> e.row.user_id
      [] e.table = "passwords" -> e.row.user_password_id
      [] e.table = "email_threepids" -> e.row.user_email_id
      [] e.table = "upstream_oauth_links" -> e.row.link_id
      [] e.table = "compat_sessions" -> e.row.session_id
      [] e.table = "compat_access_tokens" -> e.row.token_id
      [] e.table = "compat_refresh_tokens" -> e.row.refresh_token_id

TablesWithId == Tables \ { "unsupported_threepids" }

\* C19: for every emitted row with an ID and a created-at, the millisecond
\* timestamp of the ID is the created-at truncated to milliseconds.
C19_IdTimestampIsCreatedAtInMs ==
    \A i \in 1..Len(emitted) :
        emitted[i].table \in TablesWithId =>
            IdOf(emitted[i]).ts = emitted[i].row.created_at \div TicksPerMs

\* A token dated by a clock reading between two milliseconds, after rows
\* of users have been emitted.
C19_Witness ==
    /\ \E t \in EmittedAccessTokens : emitted[t].row.created_at % TicksPerMs # 0
    /\ \E s \in EmittedSessions : emitted[s].row.created_at % TicksPerMs # 0
    /\ EmittedUsers # { }

\* The rows of a table in a log of inserted or emitted rows, in order.
RowsOf(log, table) ==
    LET own == SelectSeq(log, LAMBDA e : e.table = table)
    IN  [ i \in 1..Len(own) |-> own[i].row ]

\* The tables whose write buffers a stage owns.
BuffersOf(stage) ==
    CASE stage = "users" -> { "users", "passwords" }
      [] stage = "threepids" -> { "email_threepids", "unsupported_threepids" }
      [] stage = "external_ids" -> { "upstream_oauth_links" }
      [] stage = "unrefreshable_access_tokens" -> { "compat_access_tokens", "compat_sessions" }
      [] stage = "refreshable_token_pairs" -> { "compat_access_tokens",
                                                "compat_refresh_tokens" }
      [] stage = "devices" -> { "compat_sessions" }
      [] OTHER -> { }

\* C20: every stage finishes each write buffer it owns before it returns
\* success: no row of a stage that returned is still buffered, and after a
\* successful migration every emitted row has been inserted exactly once.
C20_BuffersFinishedBeforeStageReturns ==
    /\ pc # "failed" =>
           /\ \A t \in Tables : RowsOf(mas, t) \o buf[t] = RowsOf(emitted, t)
           /\ \A t \in Tables : buf[t] # << >> => t \in BuffersOf(pc) /\ pos > 0
    /\ Succeeded =>
           /\ \A t \in Tables : buf[t] = << >> /\ RowsOf(mas, t) = RowsOf(emitted, t)
           /\ Len(mas) = Len(emitted)

\* A single refresh token, fewer than a batch, inserted by finish alone,
\* in a migration that also inserted a session of a device.
C20_Witness ==
    /\ Succeeded
    /\ Cardinality(MasIdx("compat_refresh_tokens")) = 1
    /\ MasSessions # { }
    /\ Len(mas) > 3

\* The stages that have started, as a set.
StartedStages == { started[i] : i \in 1..Len(started) }

\* The rows of a stage's stream that an iteration of its loop has
\* processed to its end.
ProcessedRows(stage) ==
    IF pc = stage THEN 1..pos
    ELSE IF pc = "failed" /\ started # << >> /\ started[Len(started)] = stage
    THEN 1..(pos - 1)
    ELSE IF stage \in StartedStages THEN 1..Len(StreamOf(stage))
    ELSE { }

\* The rows emitted for row i of a stage's stream.
EmittedFor(stage, i) ==
    { j \in 1..Len(emitted) : emitted[j].stage = stage /\ emitted[j].src = i }

Unparseable(ip) == IsSome(ip) /\ Unwrap(ip) \notin ValidIps

\* C21: a device whose last-seen IP cannot be parsed never aborts the
\* migration: the device stage emits its session with last_active_ip null
\* and every other field as for any device, and goes on with the next
\* device.
C21_UnparseableIpGivesNullIp ==
    /\ \A i \in ProcessedRows("devices") :
           /\ Cardinality(EmittedFor("devices", i)) = 1
           /\ \A j \in EmittedFor("devices", i) :
                  LET device == synapse.devices[i]
                      row == emitted[j].row
                  IN  /\ emitted[j].table = "compat_sessions"
                      /\ row.last_active_ip =
                            IF Unparseable(device.ip) THEN None ELSE device.ip
                      /\ row.device_id = Some(device.device_id)
                      /\ row.human_name = device.display_name
                      /\ row.user_agent = device.user_agent
                      /\ row.last_active_at =
                            IF IsSome(device.last_seen)
                            THEN Some(DateTimeFromMs(Unwrap(device.last_seen))) ELSE None
                      /\ row.created_at = UlidDatetime(row.session_id)
                      /\ row.user_id =
                            user_localparts_to_uuid[
                                Unwrap(ExtractLocalpart(device.user_id, server_name))]
    /\ (pc = "failed" /\ started # << >> /\ started[Len(started)] = "devices"
            /\ Unwrap(result).kind \notin { "Mas", "Synapse" }) =>
           /\ pos > 0
           /\ result = RowError("devices", synapse.devices[pos])

\* A device with an unparseable IP followed by a device with a valid one:
\* the migration succeeded and both sessions were inserted.
C21_Witness ==
    /\ Succeeded
    /\ Len(synapse.devices) = 2
    /\ Unparseable(synapse.devices[1].ip)
    /\ synapse.devices[2].ip = Some("1.2.3.4")
    /\ \E j \in MasSessions : mas[j].row.last_active_ip = None
    /\ \E j \in MasSessions : mas[j].row.last_active_ip = Some("1.2.3.4")

\* C22: each threepid of a known user yields exactly one row: an email
\* threepid when the medium is exactly "email", otherwise an unsupported
\* threepid with the medium and address unchanged.
C22_OneRowPerThreepidByMedium ==
    \A i \in 1..Len(synapse.threepids) :
        /\ Cardinality(EmittedFor("threepids", i)) <= 1
        /\ i \in ProcessedRows("threepids") => Cardinality(EmittedFor("threepids", i)) = 1
        /\ \A j \in EmittedFor("threepids", i) :
               LET threepid == synapse.threepids[i]
                   row == emitted[j].row
               IN  /\ row.user_id =
                         user_localparts_to_uuid[
                             Unwrap(ExtractLocalpart(threepid.user_id, server_name))]
                   /\ IF threepid.medium = "email"
                      THEN /\ emitted[j].table = "email_threepids"
                           /\ row.email = threepid.address
                      ELSE /\ emitted[j].table = "unsupported_threepids"
                           /\ row.medium = threepid.medium
                           /\ row.address = threepid.address

\* An "email" threepid and an "Email" threepid have both been migrated.
C22_Witness ==
    /\ Succeeded
    /\ Len(synapse.threepids) = 2
    /\ synapse.threepids[1].medium = "Email"
    /\ synapse.threepids[2].medium = "email"
    /\ Cardinality(MasIdx("email_threepids")) = 1
    /\ \E m \in MasIdx("unsupported_threepids") : mas[m].row.medium = "Email"

\* The step keeps every entry of the session index.
IndexKept ==
    \A key \in DOMAIN devices_to_compat_sessions :
        /\ key \in DOMAIN devices_to_compat_sessions'
        /\ devices_to_compat_sessions'[key] = devices_to_compat_sessions[key]

\* C24: the session index only grows: a (user_id, device_id) key, once
\* mapped to a session ID, is never removed and its session ID is never
\* replaced.
C24_SessionIndexOnlyGrows == [][IndexKept]_vars

\* A device met by an unrefreshable token, a refreshable pair and the
\* device stage in turn: the three rows carry the session ID of its key.
C24_Witness ==
    /\ pc = "done"
    /\ Cardinality(DOMAIN devices_to_compat_sessions) = 1
    /\ \E t \in EmittedAccessTokens, r \in EmittedRefreshTokens, d \in EmittedSessions :
           /\ emitted[t].stage = "unrefreshable_access_tokens"
           /\ emitted[d].stage = "devices"
           /\ emitted[t].row.session_id = emitted[r].row.session_id
           /\ emitted[t].row.session_id = emitted[d].row.session_id

\* C25: in the external-ID stage the user lookup comes before the provider
\* lookup: a row whose user is missing from the localpart index and whose
\* auth_provider is unmapped fails with MissingUserFromDependentTable of
\* user_external_ids, never with MissingAuthProviderMapping.
C25_UserLookedUpBeforeProvider ==
    [][ (ConsumesRow /\ pc = "external_ids" /\ MissingUser(pc, NextRow)
            /\ NextRow.auth_provider \notin DOMAIN provider_id_mapping) =>
          /\ pc' = "failed"
          /\ Unwrap(result').kind # "MissingAuthProviderMapping"
          /\ result' = Some(Err("MissingUserFromDependentTable", "user_external_ids",
                                 NextRow.user_id)) ]_vars

\* An external ID of a missing user and an unmapped provider was rejected.
C25_Witness ==
    /\ pc = "failed"
    /\ started # << >>
    /\ started[Len(started)] = "external_ids"
    /\ Unwrap(result).kind = "MissingUserFromDependentTable"
    /\ synapse.external_ids[pos].auth_provider \notin DOMAIN provider_id_mapping

\* The source user with a user ID is deactivated.
Deactivated(uid) ==
    \E i \in 1..Len(synapse.users) :
        synapse.users[i].name = uid /\ synapse.users[i].deactivated

\* C26: after a successful migration there are as many access tokens as
\* source unrefreshable tokens and refreshable pairs together, and as many
\* refresh tokens as refreshable pairs; the tokens of deactivated users
\* are among them.
C26_EveryTokenMigrated ==
    Succeeded =>
        /\ Cardinality(EmittedAccessTokens) =
              Len(synapse.access_tokens) + Len(synapse.refreshable_pairs)
        /\ Cardinality(EmittedRefreshTokens) = Len(synapse.refreshable_pairs)
        /\ Cardinality(MasIdx("compat_access_tokens")) =
              Len(synapse.access_tokens) + Len(synapse.refreshable_pairs)
        /\ Cardinality(MasIdx("compat_refresh_tokens")) = Len(synapse.refreshable_pairs)
        /\ \A i \in 1..Len(synapse.access_tokens) :
               \E j \in EmittedFor("unrefreshable_access_tokens", i) :
                   /\ emitted[j].table = "compat_access_tokens"
                   /\ emitted[j].row.access_token = synapse.access_tokens[i].token
        /\ \A i \in 1..Len(synapse.refreshable_pairs) :
               /\ \E j \in EmittedFor("refreshable_token_pairs", i) :
                      emitted[j].table = "compat_access_tokens"
               /\ \E j \in EmittedFor("refreshable_token_pairs", i) :
                      emitted[j].table = "compat_refresh_tokens"

\* A token of the deactivated bob and a refreshable pair of alice migrated.
C26_Witness ==
    /\ Succeeded
    /\ Len(synapse.refreshable_pairs) = 1
    /\ \E i \in 1..Len(synapse.access_tokens) :
           /\ Deactivated(synapse.access_tokens[i].user_id)
           /\ EmittedFor("unrefreshable_access_tokens", i) # { }

SetOk == [ op |-> "set", ok |-> TRUE ]

\* C23: the handler stores the request's data, then saves the repository,
\* and only then answers 201 with the request's data in the body; a failed
\* store or save answers 500, and save is never attempted after a failed
\* store.
C23_StoreThenSaveThenCreated ==
    /\ \A i \in 1..Len(responses) :
           LET x == responses[i]
           IN  /\ x.status \in { 201, 500 }
               /\ x.status = 201 =>
                      /\ x.calls = << SetOk, [ op |-> "save", ok |-> TRUE ] >>
                      /\ x.body.type = "policy-data"
                      /\ x.body.attributes.data = x.request
                      /\ \E k \in 1..Len(policy_table) :
                             /\ policy_table[k].id = x.body.id
                             /\ policy_table[k].data = x.request
               /\ x.status = 500 =>
                      \/ x.calls = << [ op |-> "set", ok |-> FALSE ] >>
                      \/ x.calls = << SetOk, [ op |-> "save", ok |-> FALSE ] >>
    /\ hpc = "set" => calls = << >>
    /\ hpc = "save" => calls = << SetOk >> /\ IsSome(policy_data)
    /\ hpc = "respond" => calls = << SetOk, [ op |-> "save", ok |-> TRUE ] >>
    /\ \A i \in 1..Len(calls) : calls[i].op = "save" => (i = 2 /\ calls[1] = SetOk)

\* A request answered 500 after a failed save, then a request answered
\* 201 with its data.
C23_Witness ==
    /\ Len(responses) = 2
    /\ responses[1].status = 500
    /\ Len(responses[1].calls) = 2
    /\ responses[2].status = 201
    /\ responses[2].body.attributes.data = "{hello:world}"
    /\ Len(policy_table) = 1

====
